---- MODULE Spec2Model ----
(***************************************************************************)
(* Model of src/lib/model.ts: the process-wide embedder handle, the        *)
(* in-memory corpus (trainedSentences / trainedEmbeddings), the persisted  *)
(* sentence list (TRAINING_FILE) and the asynchronous operations           *)
(* loadModel, trainModel and testSentence; and of the API handlers of      *)
(* src/pages/api/test.ts and src/pages/api/train.ts.                       *)
(*                                                                         *)
(* Spec lets calls overlap, SpecSeq runs one call at a time, SpecCos       *)
(* evaluates cosineSimilarity on arrays of its own, and SpecTrainApi       *)
(* follows one request to /api/train.  SpecSeqFair is SpecSeq with every   *)
(* started trainModel call running on.  SpecHome is the page of            *)
(* src/pages/index.tsx in a browser: the Home component, the user's clicks *)
(* and the settling of the requests its handlers send.                     *)
(*                                                                         *)
(* JavaScript runs one continuation at a time; control can change hands    *)
(* only at an await.  Every action below is one such continuation: the     *)
(* code between two awaits of one call.                                    *)
(*                                                                         *)
(* A vector is a record [t, dim, head]: dim is the array's length, head    *)
(* its leading components; the components after head are all 0, so dot     *)
(* products and norms computed over head are the ones of the full array.   *)
(* Components are integers and every embedding of the table has the        *)
(* integer norm 10 (a unit vector in tenths), so Math.sqrt and the         *)
(* division are exact and a score is a reduced fraction.                   *)
(***************************************************************************)
EXTENDS Integers, Sequences, FiniteSets, TLC

\* ---------------------------------------------------------------- bounds
\* call slots: how many calls may be in flight at the same time
MaxCalls == 2
\* the history counter trainsCompleted stops counting here
MaxTrainsCounted == 2
\* the page: entries collected, generated sentences per entry, characters of
\* the test input, match requests in flight
MaxEntries == 2
MaxGenerated == 2
MaxInputLen == 2
MaxMatches == 2

\* ------------------------------------------------------------ JS values
Null == [t |-> "null"]
Undefined == [t |-> "undefined"]
Str(s) == [t |-> "str", s |-> s]
NegInfinity == [t |-> "-Infinity"]
NaN == [t |-> "NaN"]

RECURSIVE Gcd(_, _)
Gcd(a, b) == IF b = 0 THEN a ELSE Gcd(b, a % b)

Abs(n) == IF n < 0 THEN -n ELSE n

\* the number n/d (d > 0), as a reduced fraction
Num(n, d) ==
  LET g == Gcd(Abs(n), d)
  IN  [t |-> "num", n |-> n \div g, d |-> d \div g]

\* x > y and x < y of JavaScript numbers: false as soon as one side is NaN
JsGt(x, y) ==
  IF x.t = "NaN" \/ y.t = "NaN" THEN FALSE
  ELSE IF x.t = "-Infinity" THEN FALSE
  ELSE IF y.t = "-Infinity" THEN TRUE
  ELSE x.n * y.d > y.n * x.d

JsLt(x, y) == JsGt(y, x)

JsGe(x, y) == JsGt(x, y) \/ (x.t = "num" /\ x = y)

\* ------------------------------------------------------------- vectors
Vec(dim, head) == [t |-> "vec", dim |-> dim, head |-> head]

\* new Array(384).fill(0)
ZeroVectorLen == 384

\* a zero vector of another model's dimensionality
ZeroVectorOtherLen == Vec(2 * ZeroVectorLen, <<0, 0, 0, 0>>)

ZeroVector == Vec(ZeroVectorLen, <<0, 0, 0, 0>>)

\* the dimensionality of 'Xenova/all-MiniLM-L6-v2'
EmbedderDim == 384

\* the queries handed to testSentence: "a" scores 1 against itself and 0
\* against "b"; "q" scores exactly 0.3 against both "a" and "b"
Queries == {"a", "q"}

\* embedder(s, { pooling: 'mean', normalize: true }) followed by tolist()[0],
\* when the capability works: a deterministic, normalised embedding
Embedding(s) ==
  CASE s = "a" -> Vec(EmbedderDim, <<10, 0, 0, 0>>)
    [] s = "b" -> Vec(EmbedderDim, <<0, 10, 0, 0>>)
    [] s = "q" -> Vec(EmbedderDim, <<3, 3, 9, 1>>)

\* what one call of the capability can produce
Throw == [t |-> "throw"]
NonArray == [t |-> "nonarray"]
EmptyArray == Vec(0, <<>>)
Pending == [t |-> "pending"]

CapabilityOutcomes(s) == {Embedding(s), Throw, EmptyArray, NonArray}

IsArray(v) == v.t = "vec"

\* ---------------------------------------------------- cosineSimilarity
RECURSIVE SumProd(_, _, _)
SumProd(a, b, i) ==
  IF i = 0 THEN 0 ELSE SumProd(a, b, i - 1) + a[i] * b[i]

\* line 89 multiplying each component of a with itself instead of with b[i]
DotOfFirst(a, b) ==
  IF a.dim > b.dim THEN NaN
  ELSE Num(SumProd(a.head, a.head, Len(a.head)), 1)

\* a.reduce((sum, val, i) => sum + val * b[i], 0): b[i] is undefined past
\* the end of b, and then the sum is NaN
Dot(a, b) ==
  IF a.dim > b.dim THEN NaN
  ELSE Num(SumProd(a.head, b.head, Len(a.head)), 1)

\* Math.sqrt of a perfect square
Sqrt(n) == CHOOSE r \in 0..n : r * r = n

Norm(a) == Sqrt(SumProd(a.head, a.head, Len(a.head)))

\* line 92 without the test of the norms: 0 / 0 and NaN / 0 are NaN
cosineSimilarityUnguarded(a, b) ==
  LET dot == Dot(a, b)
      normA == Norm(a)
      normB == Norm(b)
  IN  IF dot.t = "NaN" \/ normA * normB = 0 THEN NaN
      ELSE Num(dot.n, normA * normB)

cosineSimilarity(a, b) ==
  LET dot == Dot(a, b)
      normA == Norm(a)
      normB == Norm(b)
  IN  IF normA # 0 /\ normB # 0
        THEN IF dot.t = "NaN" THEN NaN ELSE Num(dot.n, normA * normB)
        ELSE Num(0, 1)

\* line 6 with a threshold of 0
ThresholdZero == Num(0, 1)

SIMILARITY_THRESHOLD == Num(3, 10)

\* ------------------------------------------------------------- state
VARIABLES
  embedder,           \* 0: null; n > 0: the handle of the n-th initialisation
  trainedEmbeddings,  \* sequence of vectors
  trainedSentences,   \* sequence of sentences
  file,               \* TRAINING_FILE: [exists, content]
  calls,              \* the calls in flight, one record per slot
  trainsCompleted,    \* history: trainModel calls that returned normally, counted up to MaxTrainsCounted
  cos,                \* one use of cosineSimilarity on its own: [a, b, ab, ba]
  req,                \* one request to /api/train: [method, body, pc, call, res]
  home                \* the Home component of src/pages/index.tsx: its state hooks and its requests in flight

vars == <<embedder, trainedEmbeddings, trainedSentences, file, calls, trainsCompleted, cos, req, home>>

Calls == 1..MaxCalls

\* the lists handed to trainModel: empty, one sentence, two sentences
TrainInputs == {<<>>, <<"b">>, <<"a", "b">>}

NoFile == [exists |-> FALSE, content |-> <<>>]
FileOf(list) == [exists |-> TRUE, content |-> list]

NoResult == [bestMatch |-> Undefined, bestScore |-> Undefined, returned |-> FALSE]
Result(m, s) == [bestMatch |-> m, bestScore |-> s, returned |-> TRUE]

\* cosineSimilarity has not been called (yet)
NotCalled == [t |-> "none"]
NoCos == [a |-> EmptyArray, b |-> EmptyArray, ab |-> NotCalled, ba |-> NotCalled]

\* ------------------------------------------------ requests and responses
\* how a request ends: with a response the handler sent, or with an exception
\* the handler did not catch
Response(status, body) == [t |-> "response", status |-> status, body |-> body]
Uncaught(err) == [t |-> "uncaught", err |-> err]
NoResponse == [t |-> "none"]

\* handleTrain's request to /api/train: none in flight
NoTrainFetch == [pc |-> "idle", sentences |-> 0, res |-> "none"]

EnterTextToTest == [t |-> "text", message |-> "Enter text to test the trained model."]

\* the Home component as first rendered (the useState initial values); a
\* text is a sequence of characters, the collected sentences are kept as the
\* number of generated sentences of each entry
Mounted ==
  [sentences |-> <<>>, testInput |-> <<>>, testResult |-> EnterTextToTest,
   isModelTrained |-> FALSE, statusMsg |-> "", isError |-> FALSE,
   isTraining |-> FALSE, train |-> NoTrainFetch, matches |-> <<>>]

\* no request to /api/train
NoReq == [method |-> "", body |-> Undefined, pc |-> "none", call |-> 0, res |-> NoResponse]

\* a slot no call occupies
Idle ==
  [kind |-> "none", pc |-> "idle", sentences |-> <<>>, sentence |-> "",
   results |-> <<>>, rehydrated |-> FALSE, raw |-> Pending,
   ret |-> NoResult, err |-> ""]

Inactive == {"idle", "done", "failed"}

Init ==
  /\ embedder = 0
  /\ trainedEmbeddings = <<>>
  /\ trainedSentences = <<>>
  /\ file \in {NoFile} \cup {FileOf(l) : l \in TrainInputs}
  /\ calls = [c \in Calls |-> Idle]
  /\ trainsCompleted = 0
  /\ cos = NoCos
  /\ req = NoReq
  /\ home = Mounted

\* ----------------------------------------------------------- loadModel
\* the synchronous part of loadModel(): with no handle yet the call starts
\* pipeline() and waits for it; otherwise it returns at once and the caller
\* resumes at its next turn
loadModel(call, loading, ready) ==
  [call EXCEPT !.pc = IF embedder = 0 THEN loading ELSE ready]

\* a settled call's record stays for the one state in which its promise
\* settles; the next continuation that runs finds the slot free
Settle(cs) == [c \in Calls |-> IF cs[c].pc \in Inactive THEN Idle ELSE cs[c]]

\* the record of a call that returned ret (pc "done") or threw err (pc "failed")
Settled(call, pc, ret, err) ==
  [Idle EXCEPT !.kind = call.kind, !.rehydrated = call.rehydrated,
               !.pc = pc, !.ret = ret, !.err = err]

\* --------------------------------------------------------- trainModel
\* entering trainModel(sentences): runs up to the await of loadModel()
EnterTrain(call, sentences) ==
  loadModel([call EXCEPT !.sentences = sentences], "tm_loading", "tm_ready")

\* lines 25-35 without the try/catch and the check: the callback hands on
\* whatever the capability produced
EmbedCallbackUnchecked(raw) == raw

\* lines 25-35, the callback of sentences.map for one sentence, given what
\* the capability produced for it
EmbedCallback(raw) ==
  IF raw.t = "throw" THEN ZeroVector
  ELSE IF ~IsArray(raw) \/ raw.dim = 0 THEN ZeroVector
  ELSE raw

\* a call (from the API handler or any other caller) of trainModel(sentences)
StartTrain(c, sentences) ==
  /\ calls[c].pc \in Inactive
  /\ calls' = [Settle(calls) EXCEPT ![c] = EnterTrain([Idle EXCEPT !.kind = "train"], sentences)]
  /\ UNCHANGED <<embedder, trainedEmbeddings, trainedSentences, file, trainsCompleted, cos, req, home>>

\* pipeline() resolves: line 14 assigns the new handle, whatever embedder
\* holds by now, and the caller of loadModel resumes
LoadDone(c) ==
  /\ calls[c].pc \in {"tm_loading", "t_loading"}
  /\ embedder' = embedder + 1
  /\ calls' = [Settle(calls) EXCEPT
                 ![c].pc = IF calls[c].pc = "tm_loading" THEN "tm_ready" ELSE "t_ready"]
  /\ UNCHANGED <<trainedEmbeddings, trainedSentences, file, trainsCompleted, cos, req, home>>

\* line 14 with the rejection of pipeline() swallowed: the caller goes on
\* without a handle
LoadFailSwallowed(c) ==
  /\ calls[c].pc \in {"tm_loading", "t_loading"}
  /\ calls' = [Settle(calls) EXCEPT
                 ![c].pc = IF calls[c].pc = "tm_loading" THEN "tm_ready" ELSE "t_ready"]
  /\ UNCHANGED <<embedder, trainedEmbeddings, trainedSentences, file, trainsCompleted, cos, req, home>>

\* pipeline() rejects: loadModel, and with it trainModel or testSentence, rejects
LoadFail(c) ==
  /\ calls[c].pc \in {"tm_loading", "t_loading"}
  /\ calls' = [Settle(calls) EXCEPT ![c] = Settled(calls[c], "failed", NoResult, "load")]
  /\ UNCHANGED <<embedder, trainedEmbeddings, trainedSentences, file, trainsCompleted, cos, req, home>>

\* line 21 adding the new sentences to the ones in memory
TrainInstallAppends(c) ==
  /\ calls[c].pc = "tm_ready"
  /\ trainedSentences' = trainedSentences \o calls[c].sentences
  /\ calls' = [Settle(calls) EXCEPT
                 ![c].pc = "embedding",
                 ![c].results = [i \in 1..Len(calls[c].sentences) |-> Pending]]
  /\ UNCHANGED <<embedder, trainedEmbeddings, file, trainsCompleted, cos, req, home>>

\* lines 21-24: after loadModel, install the sentence list and issue one
\* embedding computation per sentence; the call then awaits Promise.all
TrainInstall(c) ==
  /\ calls[c].pc = "tm_ready"
  /\ trainedSentences' = calls[c].sentences
  /\ calls' = [Settle(calls) EXCEPT
                 ![c].pc = "embedding",
                 ![c].results = [i \in 1..Len(calls[c].sentences) |-> Pending]]
  /\ UNCHANGED <<embedder, trainedEmbeddings, file, trainsCompleted, cos, req, home>>

\* Promise.all collecting the results in the order in which they arrive:
\* the result of sentence i goes to the first free place
EmbedDoneByArrival(c, i) ==
  /\ calls[c].pc = "embedding"
  /\ i \in 1..Len(calls[c].sentences)
  /\ calls[c].results[i] = Pending
  /\ \E raw \in CapabilityOutcomes(calls[c].sentences[i]) :
       LET first == CHOOSE j \in 1..Len(calls[c].results) :
                      /\ calls[c].results[j] = Pending
                      /\ \A k \in 1..(j - 1) : calls[c].results[k] # Pending
       IN  calls' = [Settle(calls) EXCEPT ![c].results[first] = EmbedCallback(raw)]
  /\ UNCHANGED <<embedder, trainedEmbeddings, trainedSentences, file, trainsCompleted, cos, req, home>>

\* lines 25-35: the computation of sentence i settles, in any order
EmbedDone(c, i) ==
  /\ calls[c].pc = "embedding"
  /\ i \in 1..Len(calls[c].sentences)
  /\ calls[c].results[i] = Pending
  /\ \E raw \in CapabilityOutcomes(calls[c].sentences[i]) :
       calls' = [Settle(calls) EXCEPT ![c].results[i] = EmbedCallback(raw)]
  /\ UNCHANGED <<embedder, trainedEmbeddings, trainedSentences, file, trainsCompleted, cos, req, home>>

\* Promise.all resolving only when every computation produced an embedding
AllSettledWithEmbeddings(call) ==
  \A i \in 1..Len(call.results) : call.results[i] \notin {Pending, ZeroVector}

AllSettled(call) == \A i \in 1..Len(call.results) : call.results[i] # Pending

\* line 57: testSentence calls the embedder for the query and awaits it
EnterQuery(call) ==
  [call EXCEPT !.pc = "q_embedding", !.sentences = <<>>, !.results = <<>>]

\* line 39 appending the sentences to the list the file holds
TrainFinishAppends(c, writeOk) ==
  /\ calls[c].pc = "embedding"
  /\ AllSettled(calls[c])
  /\ trainedEmbeddings' = calls[c].results
  /\ IF writeOk
       THEN /\ file' = FileOf(file.content \o calls[c].sentences)
            /\ calls' = [Settle(calls) EXCEPT ![c] =
                 IF calls[c].kind = "train"
                   THEN Settled(calls[c], "done", NoResult, "")
                   ELSE EnterQuery(calls[c])]
       ELSE /\ file' = file
            /\ calls' = [Settle(calls) EXCEPT ![c] = Settled(calls[c], "failed", NoResult, "write")]
  /\ trainsCompleted' = IF writeOk /\ trainsCompleted < MaxTrainsCounted
                          THEN trainsCompleted + 1 ELSE trainsCompleted
  /\ UNCHANGED <<embedder, trainedSentences, cos, req, home>>

\* line 39 before line 23: the file is written first, and a failing write
\* leaves the embeddings in memory as they were
TrainFinishWritesFirst(c, writeOk) ==
  /\ calls[c].pc = "embedding"
  /\ AllSettled(calls[c])
  /\ IF writeOk
       THEN /\ trainedEmbeddings' = calls[c].results
            /\ file' = FileOf(calls[c].sentences)
            /\ calls' = [Settle(calls) EXCEPT ![c] =
                 IF calls[c].kind = "train"
                   THEN Settled(calls[c], "done", NoResult, "")
                   ELSE EnterQuery(calls[c])]
       ELSE /\ trainedEmbeddings' = trainedEmbeddings
            /\ file' = file
            /\ calls' = [Settle(calls) EXCEPT ![c] = Settled(calls[c], "failed", NoResult, "write")]
  /\ trainsCompleted' = IF writeOk /\ trainsCompleted < MaxTrainsCounted
                          THEN trainsCompleted + 1 ELSE trainsCompleted
  /\ UNCHANGED <<embedder, trainedSentences, cos, req, home>>

\* lines 23 and 39-40: Promise.all resolves, the embeddings are installed and
\* the sentence list is written; writeFileSync may throw.  A rehydrating
\* trainModel returns into testSentence, which goes on to embed the query.
TrainFinish(c, writeOk) ==
  /\ calls[c].pc = "embedding"
  /\ AllSettled(calls[c])
  /\ trainedEmbeddings' = calls[c].results
  /\ IF writeOk
       THEN /\ file' = FileOf(calls[c].sentences)
            /\ calls' = [Settle(calls) EXCEPT ![c] =
                 IF calls[c].kind = "train"
                   THEN Settled(calls[c], "done", NoResult, "")
                   ELSE EnterQuery(calls[c])]
       ELSE /\ file' = file
            /\ calls' = [Settle(calls) EXCEPT ![c] = Settled(calls[c], "failed", NoResult, "write")]
  /\ trainsCompleted' = IF writeOk /\ trainsCompleted < MaxTrainsCounted
                          THEN trainsCompleted + 1 ELSE trainsCompleted
  /\ UNCHANGED <<embedder, trainedSentences, cos, req, home>>

\* -------------------------------------------------------- testSentence
\* a call of testSentence(sentence): runs up to the await of loadModel()
StartTest(c, sentence) ==
  /\ calls[c].pc \in Inactive
  /\ calls' = [Settle(calls) EXCEPT ![c] =
       loadModel([Idle EXCEPT !.kind = "test", !.sentence = sentence], "t_loading", "t_ready")]
  /\ UNCHANGED <<embedder, trainedEmbeddings, trainedSentences, file, trainsCompleted, cos, req, home>>

\* lines 48-49 retraining on the list in memory instead of the one read
RehydrateFromMemory(call) ==
  EnterTrain([call EXCEPT !.rehydrated = TRUE], trainedSentences)

\* lines 48-49: trainModel(saved) on the sentence list read from the file
Rehydrate(call) ==
  EnterTrain([call EXCEPT !.rehydrated = TRUE], file.content)

\* lines 51-52 returning a score of -Infinity, as a scan of nothing would
NoTrainingDataScansNothing(call) == Settled(call, "done", Result(Null, NegInfinity), "")

\* lines 51-52: no corpus in memory and no file
NoTrainingData(call) == Settled(call, "done", Result(Null, Null), "")

\* lines 46-57: with an empty corpus, rehydrate from the file or give up;
\* otherwise start embedding the query.  readFileSync may throw.
TestCheck(c, readOk) ==
  /\ calls[c].pc = "t_ready"
  /\ calls' = [Settle(calls) EXCEPT ![c] =
       IF Len(trainedEmbeddings) = 0 \/ Len(trainedSentences) = 0
         THEN IF file.exists
                THEN IF readOk
                       THEN Rehydrate(calls[c])
                       ELSE Settled(calls[c], "failed", NoResult, "read")
                ELSE NoTrainingData(calls[c])
         ELSE EnterQuery(calls[c])]
  /\ UNCHANGED <<embedder, trainedEmbeddings, trainedSentences, file, trainsCompleted, cos, req, home>>

\* line 57: the capability settles for the query
QueryEmbedDone(c) ==
  /\ calls[c].pc = "q_embedding"
  /\ \E raw \in CapabilityOutcomes(calls[c].sentence) :
       calls' = [Settle(calls) EXCEPT ![c].pc = "scanning", ![c].raw = raw]
  /\ UNCHANGED <<embedder, trainedEmbeddings, trainedSentences, file, trainsCompleted, cos, req, home>>

\* line 71 taking the sentence after the entry that scored best
SentenceAtNext(i) ==
  IF i + 1 <= Len(trainedSentences) THEN Str(trainedSentences[i + 1]) ELSE Undefined

\* trainedSentences[i], undefined past the end of the array
SentenceAt(i) ==
  IF i <= Len(trainedSentences) THEN Str(trainedSentences[i]) ELSE Undefined

\* lines 63-73: the forEach over trainedEmbeddings, up to and including entry i
\* the comparison of line 69 the wrong way round
RECURSIVE ScanKeepsLower(_, _)
ScanKeepsLower(testEmbedding, i) ==
  IF i = 0 THEN [bestMatch |-> Null, bestScore |-> NegInfinity]
  ELSE LET prev == ScanKeepsLower(testEmbedding, i - 1)
           score == cosineSimilarity(testEmbedding, trainedEmbeddings[i])
       IN  IF JsLt(score, prev.bestScore)
             THEN [bestMatch |-> SentenceAt(i), bestScore |-> score]
             ELSE prev

\* line 69 with >= for >: an entry that equals the best score replaces it
RECURSIVE ScanKeepsLast(_, _)
ScanKeepsLast(testEmbedding, i) ==
  IF i = 0 THEN [bestMatch |-> Null, bestScore |-> NegInfinity]
  ELSE LET prev == ScanKeepsLast(testEmbedding, i - 1)
           score == cosineSimilarity(testEmbedding, trainedEmbeddings[i])
       IN  IF JsGt(score, prev.bestScore) \/ score = prev.bestScore
             THEN [bestMatch |-> SentenceAt(i), bestScore |-> score]
             ELSE prev

RECURSIVE Scan(_, _)
Scan(testEmbedding, i) ==
  IF i = 0 THEN [bestMatch |-> Null, bestScore |-> NegInfinity]
  ELSE LET prev == Scan(testEmbedding, i - 1)
           score == cosineSimilarity(testEmbedding, trainedEmbeddings[i])
       IN  IF JsGt(score, prev.bestScore)
             THEN [bestMatch |-> SentenceAt(i), bestScore |-> score]
             ELSE prev

\* line 59 without the length check: an empty array is scanned like a vector
MatchResultScansEmptyArray(raw) ==
  IF raw.t = "throw" \/ ~IsArray(raw)
    THEN Result(Null, Null)
    ELSE LET best == Scan(raw, Len(trainedEmbeddings))
         IN  IF JsLt(best.bestScore, SIMILARITY_THRESHOLD)
               THEN Result(Null, best.bestScore)
               ELSE Result(best.bestMatch, best.bestScore)

\* line 75 with <= for <: a best score equal to the threshold is rejected
MatchResultRejectsThreshold(raw) ==
  IF raw.t = "throw" \/ ~IsArray(raw) \/ raw.dim = 0
    THEN Result(Null, Null)
    ELSE LET best == Scan(raw, Len(trainedEmbeddings))
         IN  IF ~JsGt(best.bestScore, SIMILARITY_THRESHOLD)
               THEN Result(Null, best.bestScore)
               ELSE Result(best.bestMatch, best.bestScore)

\* lines 58-85: what testSentence returns, from what the capability
\* produced for the query and the corpus as it is now
MatchResult(raw) ==
  IF raw.t = "throw" \/ ~IsArray(raw) \/ raw.dim = 0
    THEN Result(Null, Null)
    ELSE LET best == Scan(raw, Len(trainedEmbeddings))
         IN  IF JsLt(best.bestScore, SIMILARITY_THRESHOLD)
               THEN Result(Null, best.bestScore)
               ELSE Result(best.bestMatch, best.bestScore)

\* lines 58-85 adding the query and its embedding to the corpus
TestScanLearnsQuery(c) ==
  /\ calls[c].pc = "scanning"
  /\ calls' = [Settle(calls) EXCEPT ![c] =
       Settled(calls[c], "done", MatchResult(calls[c].raw), "")]
  /\ trainedSentences' = Append(trainedSentences, calls[c].sentence)
  /\ trainedEmbeddings' = Append(trainedEmbeddings, EmbedCallback(calls[c].raw))
  /\ UNCHANGED <<embedder, file, trainsCompleted, cos, req, home>>

\* lines 58-85: the continuation after the query's embedding settled
TestScan(c) ==
  /\ calls[c].pc = "scanning"
  /\ calls' = [Settle(calls) EXCEPT ![c] =
       Settled(calls[c], "done", MatchResult(calls[c].raw), "")]
  /\ UNCHANGED <<embedder, trainedEmbeddings, trainedSentences, file, trainsCompleted, cos, req, home>>

\* ------------------------------------------- src/pages/api/test.ts
\* lines 5-9, given the settled testSentence call the handler awaited: the
\* result is sent with status 200; there is no try/catch, so a rejection of
\* testSentence rejects the handler
testHandler(call) ==
  IF call.pc = "failed" THEN Uncaught(call.err) ELSE Response(200, call.ret)

\* ------------------------------------------------------ specifications
Step(c) ==
  \/ LoadDone(c)
  \/ LoadFail(c)
  \/ TrainInstall(c)
  \/ \E i \in 1..Len(calls[c].sentences) : EmbedDone(c, i)
  \/ \E writeOk \in BOOLEAN : TrainFinish(c, writeOk)
  \/ \E readOk \in BOOLEAN : TestCheck(c, readOk)
  \/ QueryEmbedDone(c)
  \/ TestScan(c)

\* calls start at any time, also while others are in flight
Next ==
  \E c \in Calls :
    \/ \E sentences \in TrainInputs : StartTrain(c, sentences)
    \/ \E sentence \in Queries : StartTest(c, sentence)
    \/ Step(c)

Spec == Init /\ [][Next]_vars

\* one call at a time: a call starts only when no other call is in flight
Quiescent == \A c \in Calls : calls[c].pc \in Inactive

NextSeq ==
  \E c \in Calls :
    \/ Quiescent /\ \E sentences \in TrainInputs : StartTrain(c, sentences)
    \/ Quiescent /\ \E sentence \in Queries : StartTest(c, sentence)
    \/ Step(c)

SpecSeq == Init /\ [][NextSeq]_vars

\* the continuations of call c that belong to loadModel and trainModel
TrainStep(c) ==
  \/ LoadDone(c)
  \/ LoadFail(c)
  \/ TrainInstall(c)
  \/ \E i \in 1..Len(calls[c].sentences) : EmbedDone(c, i)
  \/ \E writeOk \in BOOLEAN : TrainFinish(c, writeOk)

\* one call at a time, and the event loop runs every continuation of
\* trainModel that is ready: pipeline() and every embedding computation
\* settle at some time, and a call whose awaited promise has settled is resumed
SpecSeqFair == SpecSeq /\ \A c \in Calls : WF_vars(TrainStep(c))

\* ------------------------------------------ cosineSimilarity on its own
\* the longest array handed to cosineSimilarity on its own
MaxDim == 2

\* the components of these arrays
Components == {-4, -3, 0, 3, 4}

IsSquare(n) == \E r \in 0..n : r * r = n

\* the arrays of at most MaxDim components whose norm is an integer (so that
\* Math.sqrt is exact), the empty array and the zero vectors among them
CosVectors ==
  {Vec(Len(h), h) :
     h \in {g \in UNION {[1..n -> Components] : n \in 0..MaxDim} :
              IsSquare(SumProd(g, g, Len(g)))}}

InitCos ==
  /\ embedder = 0
  /\ trainedEmbeddings = <<>>
  /\ trainedSentences = <<>>
  /\ file = NoFile
  /\ calls = [c \in Calls |-> Idle]
  /\ trainsCompleted = 0
  /\ cos \in [a : CosVectors, b : CosVectors, ab : {NotCalled}, ba : {NotCalled}]
  /\ req = NoReq
  /\ home = Mounted

\* a caller evaluates cosineSimilarity(a, b)
CallAB ==
  /\ cos.ab = NotCalled
  /\ cos' = [cos EXCEPT !.ab = cosineSimilarity(cos.a, cos.b)]
  /\ UNCHANGED <<embedder, trainedEmbeddings, trainedSentences, file, calls, trainsCompleted, req, home>>

\* a caller evaluates cosineSimilarity(b, a)
CallBA ==
  /\ cos.ba = NotCalled
  /\ cos' = [cos EXCEPT !.ba = cosineSimilarity(cos.b, cos.a)]
  /\ UNCHANGED <<embedder, trainedEmbeddings, trainedSentences, file, calls, trainsCompleted, req, home>>

NextCos == CallAB \/ CallBA

SpecCos == InitCos /\ [][NextCos]_vars

\* ------------------------------------------ src/pages/api/train.ts
\* JSON values of a request body
Array(items) == [t |-> "array", items |-> items]
Object(sentences) == [t |-> "object", sentences |-> sentences]

Methods == {"GET", "POST"}

\* req.body as the body parser delivers it: the JSON value null, an object
\* without sentences, with sentences that are no array, with an empty and
\* with a non-empty array
Bodies ==
  {Null, Object(Undefined), Object(Str("b"))} \cup {Object(Array(l)) : l \in TrainInputs}

MethodNotAllowed == "Method not allowed. Use POST."
NoSentences == "No training sentences provided."
Trained == "Model trained successfully."
TrainingFailed == "Training failed due to server error."

InitTrainApi ==
  /\ embedder = 0
  /\ trainedEmbeddings = <<>>
  /\ trainedSentences = <<>>
  /\ file \in {NoFile} \cup {FileOf(l) : l \in TrainInputs}
  /\ calls = [c \in Calls |-> Idle]
  /\ trainsCompleted = 0
  /\ cos = NoCos
  /\ req \in [method : Methods, body : Bodies, pc : {"received"}, call : {0},
               res : {NoResponse}]
  /\ home = Mounted

\* lines 4-15: the handler up to its await of trainModel(sentences).  Line 8
\* destructures req.body, which throws a TypeError when the body is null.
handlerEnter(c) ==
  /\ req.pc = "received"
  /\ IF req.method # "POST"
       THEN /\ req' = [req EXCEPT !.pc = "answered", !.res = Response(405, MethodNotAllowed)]
            /\ calls' = calls
       ELSE IF req.body = Null
         THEN /\ req' = [req EXCEPT !.pc = "thrown", !.res = Uncaught("TypeError")]
              /\ calls' = calls
       ELSE IF req.body.sentences.t # "array" \/ Len(req.body.sentences.items) = 0
         THEN /\ req' = [req EXCEPT !.pc = "answered", !.res = Response(400, NoSentences)]
              /\ calls' = calls
       ELSE /\ req' = [req EXCEPT !.pc = "awaiting", !.call = c]
            /\ calls' = [calls EXCEPT ![c] =
                 EnterTrain([Idle EXCEPT !.kind = "train"], req.body.sentences.items)]
  /\ UNCHANGED <<embedder, trainedEmbeddings, trainedSentences, file, trainsCompleted, cos, home>>

\* lines 16-20: trainModel has settled; message is error.message of what it
\* threw, which may be empty
handlerResume(message) ==
  /\ req.pc = "awaiting"
  /\ calls[req.call].pc \in {"done", "failed"}
  /\ req' = [req EXCEPT !.pc = "answered", !.res =
       IF calls[req.call].pc = "done"
         THEN Response(200, Trained)
         ELSE Response(500, IF message = "" THEN TrainingFailed ELSE message)]
  /\ calls' = Settle(calls)
  /\ UNCHANGED <<embedder, trainedEmbeddings, trainedSentences, file, trainsCompleted, cos, home>>

\* one request to /api/train and the trainModel call it makes
NextTrainApi ==
  \E c \in Calls :
    \/ handlerEnter(c)
    \/ \E message \in {"", calls[c].err} : handlerResume(message)
    \/ LoadDone(c)
    \/ LoadFail(c)
    \/ TrainInstall(c)
    \/ \E i \in 1..Len(calls[c].sentences) : EmbedDone(c, i)
    \/ \E writeOk \in BOOLEAN : TrainFinish(c, writeOk)

SpecTrainApi == InitTrainApi /\ [][NextTrainApi]_vars

\* ------------------------------------------------ src/pages/index.tsx
\* String.prototype.trim on a text of spaces and letters
RECURSIVE TrimStart(_)
TrimStart(s) == IF s # <<>> /\ Head(s) = " " THEN TrimStart(Tail(s)) ELSE s

RECURSIVE TrimEnd(_)
TrimEnd(s) ==
  IF s # <<>> /\ s[Len(s)] = " " THEN TrimEnd(SubSeq(s, 1, Len(s) - 1)) ELSE s

trim(s) == TrimEnd(TrimStart(s))

Chars == {" ", "a"}
Texts == UNION {[1..n -> Chars] : n \in 0..MaxInputLen}

RECURSIVE Sum(_)
Sum(counts) == IF counts = <<>> THEN 0 ELSE Head(counts) + Sum(Tail(counts))

\* lines 38-40
totalGeneratedCount == Sum(home.sentences)

\* line 258
trainButtonDisabled == totalGeneratedCount < 1 \/ home.isTraining

RemoveAt(seq, k) == SubSeq(seq, 1, k - 1) \o SubSeq(seq, k + 1, Len(seq))

\* lines 33-36
updateStatus(h, message, error) == [h EXCEPT !.statusMsg = message, !.isError = error]

NeedOneSentence == "You need at least 1 generated sentence to train the model."
TrainingInProgress == "Training model in progress. This may take a moment..."
TrainingCompleted == "Model training completed successfully! You can now test it below."
PleaseEnterText == [t |-> "text", message |-> "Please enter text to test the model."]
NotTrainedYet == [t |-> "text", message |-> "The model has not been trained yet. Please train the model first."]
Testing == "Testing against trained data..."
ServerResponded == "Server responded with status"
ServerMessage == "errorData.message"
JsonFailed == "res.json() failed"
FetchFailed == "fetch failed"

\* what a fetch settles with, and what reading the body of a response that
\* is not ok gives
FetchOutcomes == {"ok", "notok", "rejected"}
ErrorBodies == {ServerMessage, ServerResponded, JsonFailed}

\* the bodies /api/test answers with
TestData ==
  {[bestMatch |-> Str("b"), bestScore |-> Num(9, 10)],
   [bestMatch |-> Str("b"), bestScore |-> Num(1, 2)],
   [bestMatch |-> Null, bestScore |-> Num(1, 10)],
   [bestMatch |-> Null, bestScore |-> Null]}

\* lines 43-49, called by handleGenerate with a non-empty list (line 141)
addSentence(n) ==
  /\ Len(home.sentences) < MaxEntries
  /\ home' = [home EXCEPT !.sentences = Append(@, n)]
  /\ UNCHANGED <<embedder, trainedEmbeddings, trainedSentences, file, calls, trainsCompleted, cos, req>>

\* lines 70-104: one generated sentence is removed, and the entry with it
\* when it was the entry's last
removeGeneratedSentence(k) ==
  /\ k \in 1..Len(home.sentences)
  /\ home' = IF home.sentences[k] = 1
               THEN updateStatus([home EXCEPT !.sentences = RemoveAt(@, k)], "Entire entry removed.", FALSE)
               ELSE updateStatus([home EXCEPT !.sentences[k] = @ - 1], "Sentence removed.", FALSE)
  /\ UNCHANGED <<embedder, trainedEmbeddings, trainedSentences, file, calls, trainsCompleted, cos, req>>

\* lines 106-113
removeEntry(k) ==
  /\ k \in 1..Len(home.sentences)
  /\ home' = updateStatus([home EXCEPT !.sentences = RemoveAt(@, k)], "Entire entry removed.", FALSE)
  /\ UNCHANGED <<embedder, trainedEmbeddings, trainedSentences, file, calls, trainsCompleted, cos, req>>

\* line 404: the test section is rendered only once the model is trained
setTestInput(text) ==
  /\ home.isModelTrained
  /\ home' = [home EXCEPT !.testInput = text]
  /\ UNCHANGED <<embedder, trainedEmbeddings, trainedSentences, file, calls, trainsCompleted, cos, req>>

\* lines 158-178: handleTrain up to its await of fetch
handleTrain ==
  /\ home' = IF totalGeneratedCount < 1
               THEN updateStatus(home, NeedOneSentence, TRUE)
               ELSE updateStatus([home EXCEPT !.isTraining = TRUE,
                                    !.train = [pc |-> "fetching", sentences |-> totalGeneratedCount, res |-> "none"]],
                                 TrainingInProgress, FALSE)
  /\ UNCHANGED <<embedder, trainedEmbeddings, trainedSentences, file, calls, trainsCompleted, cos, req>>

\* lines 368-378: the train button is rendered while the model is not
\* trained, and a disabled button takes no click
trainClick == ~home.isModelTrained /\ ~trainButtonDisabled /\ handleTrain

\* lines 193-199: the catch and the finally of handleTrain
trainFailed(h, res, message) ==
  [updateStatus(h, message, TRUE) EXCEPT !.isModelTrained = FALSE, !.isTraining = FALSE,
     !.train = [NoTrainFetch EXCEPT !.res = res]]

\* lines 184-199 taking a response that is not ok for a success
trainFetchSettlesAnyResponse(outcome) ==
  /\ home.train.pc = "fetching"
  /\ home' = IF outcome \in {"ok", "notok"}
               THEN [updateStatus(home, TrainingCompleted, FALSE) EXCEPT
                       !.isModelTrained = TRUE, !.isTraining = FALSE,
                       !.train = [NoTrainFetch EXCEPT !.res = outcome]]
               ELSE trainFailed(home, "rejected", FetchFailed)
  /\ UNCHANGED <<embedder, trainedEmbeddings, trainedSentences, file, calls, trainsCompleted, cos, req>>

\* lines 178-199: fetch settles.  An ok response marks the model trained; a
\* response that is not ok has its body read first (line 185); a rejection
\* goes to the catch.
trainFetchSettles(outcome) ==
  /\ home.train.pc = "fetching"
  /\ home' = CASE outcome = "ok" ->
                    [updateStatus(home, TrainingCompleted, FALSE) EXCEPT
                       !.isModelTrained = TRUE, !.isTraining = FALSE,
                       !.train = [NoTrainFetch EXCEPT !.res = "ok"]]
               [] outcome = "notok" -> [home EXCEPT !.train.pc = "errorJson", !.train.res = "notok"]
               [] outcome = "rejected" -> trainFailed(home, "rejected", FetchFailed)
  /\ UNCHANGED <<embedder, trainedEmbeddings, trainedSentences, file, calls, trainsCompleted, cos, req>>

\* lines 185-199: the body of a response that is not ok was read, or
\* reading it threw; either way the catch and the finally run
trainErrorBody(message) ==
  /\ home.train.pc = "errorJson"
  /\ home' = trainFailed(home, "notok", message)
  /\ UNCHANGED <<embedder, trainedEmbeddings, trainedSentences, file, calls, trainsCompleted, cos, req>>

\* lines 202-221 without the trim of line 203
handleMatchUntrimmed ==
  /\ LET testText == home.testInput
     IN  IF testText = <<>>
           THEN home' = [home EXCEPT !.testResult = PleaseEnterText]
         ELSE IF ~home.isModelTrained
           THEN home' = [home EXCEPT !.testResult = NotTrainedYet]
         ELSE /\ Len(home.matches) < MaxMatches
              /\ home' = updateStatus([home EXCEPT !.matches =
                           Append(@, [testText |-> testText, pc |-> "fetching"])], Testing, FALSE)
  /\ UNCHANGED <<embedder, trainedEmbeddings, trainedSentences, file, calls, trainsCompleted, cos, req>>

\* lines 202-221: handleMatch up to its await of fetch
handleMatch ==
  /\ LET testText == trim(home.testInput)
     IN  IF testText = <<>>
           THEN home' = [home EXCEPT !.testResult = PleaseEnterText]
         ELSE IF ~home.isModelTrained
           THEN home' = [home EXCEPT !.testResult = NotTrainedYet]
         ELSE /\ Len(home.matches) < MaxMatches
              /\ home' = updateStatus([home EXCEPT !.matches =
                           Append(@, [testText |-> testText, pc |-> "fetching"])], Testing, FALSE)
  /\ UNCHANGED <<embedder, trainedEmbeddings, trainedSentences, file, calls, trainsCompleted, cos, req>>

\* lines 386-412: the match button is rendered once the model is trained
matchClick == home.isModelTrained /\ handleMatch

\* lines 250-255: the catch and the finally of handleMatch
matchFailed(h, k, message) ==
  updateStatus([h EXCEPT !.matches = RemoveAt(@, k),
                  !.testResult = [t |-> "error", message |-> message]], "", FALSE)

\* lines 216-229, 250-255: fetch settles for the k-th request in flight
matchFetchSettles(k, outcome) ==
  /\ k \in 1..Len(home.matches)
  /\ home.matches[k].pc = "fetching"
  /\ home' = CASE outcome = "ok" -> [home EXCEPT !.matches[k].pc = "json"]
               [] outcome = "notok" -> [home EXCEPT !.matches[k].pc = "errorJson"]
               [] outcome = "rejected" -> matchFailed(home, k, FetchFailed)
  /\ UNCHANGED <<embedder, trainedEmbeddings, trainedSentences, file, calls, trainsCompleted, cos, req>>

\* lines 223-226, 250-255
matchErrorBody(k, message) ==
  /\ k \in 1..Len(home.matches)
  /\ home.matches[k].pc = "errorJson"
  /\ home' = matchFailed(home, k, message)
  /\ UNCHANGED <<embedder, trainedEmbeddings, trainedSentences, file, calls, trainsCompleted, cos, req>>

\* lines 230-248: the text shown for the body data of an ok response
Prediction(testText, data) ==
  LET scored == data.bestScore.t = "num"
      matchText == IF data.bestMatch.t = "str" /\ data.bestMatch.s # ""
                     THEN data.bestMatch.s ELSE "No match found"
  IN  [t |-> "prediction", testText |-> testText, matchText |-> matchText,
       score |-> IF scored THEN Num(100 * data.bestScore.n, data.bestScore.d) ELSE Str("N/A"),
       message |-> IF ~scored THEN "No correlation score available."
                   ELSE IF JsGe(data.bestScore, Num(85, 100))
                     THEN "This text is highly similar to the trained data."
                   ELSE IF JsGe(data.bestScore, Num(1, 2))
                     THEN "Match found, but correlation is weak."
                   ELSE "No strong correlation found with the trained data."]

\* lines 228-255: the body of an ok response was read (readOk) or reading it
\* threw
matchBody(k, readOk, data) ==
  /\ k \in 1..Len(home.matches)
  /\ home.matches[k].pc = "json"
  /\ home' = IF readOk
               THEN updateStatus([home EXCEPT !.matches = RemoveAt(@, k),
                                    !.testResult = Prediction(home.matches[k].testText, data)], "", FALSE)
               ELSE matchFailed(home, k, JsonFailed)
  /\ UNCHANGED <<embedder, trainedEmbeddings, trainedSentences, file, calls, trainsCompleted, cos, req>>

\* the page as first rendered; the server's state plays no part
InitHome ==
  /\ embedder = 0
  /\ trainedEmbeddings = <<>>
  /\ trainedSentences = <<>>
  /\ file = NoFile
  /\ calls = [c \in Calls |-> Idle]
  /\ trainsCompleted = 0
  /\ cos = NoCos
  /\ req = NoReq
  /\ home = Mounted

\* the page in a browser: the user's clicks and edits and the settling of
\* the requests the handlers made
NextHome ==
  \/ \E n \in 1..MaxGenerated : addSentence(n)
  \/ \E k \in 1..MaxEntries : removeGeneratedSentence(k)
  \/ \E k \in 1..MaxEntries : removeEntry(k)
  \/ \E text \in Texts : setTestInput(text)
  \/ trainClick
  \/ \E outcome \in FetchOutcomes : trainFetchSettles(outcome)
  \/ \E message \in ErrorBodies : trainErrorBody(message)
  \/ matchClick
  \/ \E k \in 1..MaxMatches, outcome \in FetchOutcomes : matchFetchSettles(k, outcome)
  \/ \E k \in 1..MaxMatches, message \in ErrorBodies : matchErrorBody(k, message)
  \/ \E k \in 1..MaxMatches, readOk \in BOOLEAN, data \in TestData : matchBody(k, readOk, data)

SpecHome == InitHome /\ [][NextHome]_vars

TypeOK ==
  /\ embedder \in 0..MaxCalls
  /\ trainedSentences \in TrainInputs
  /\ trainsCompleted \in 0..MaxTrainsCounted

\* ---------------------------------------------------------- properties
\* the steps of call c that the properties are about
CheckStep(c) == calls[c].pc = "t_ready" /\ calls'[c].pc # "t_ready"
InstallStep(c) == calls[c].pc = "tm_ready" /\ calls'[c].pc = "embedding"
FinishStep(c) == calls[c].pc = "embedding" /\ calls'[c].pc # "embedding"
ScanStep(c) == calls[c].pc = "scanning" /\ calls'[c].pc = "done"

\* the capability produced a usable vector
ValidEmbedding(raw) == raw.t = "vec" /\ raw.dim > 0

\* order on scores that are numbers
Leq(x, y) == x.n * y.d <= y.n * x.d
Less(x, y) == x.n * y.d < y.n * x.d

\* the similarities of the vector q to the embeddings embs, and their maximum
ScoresOf(q, embs) == {cosineSimilarity(q, embs[i]) : i \in 1..Len(embs)}
MaxOf(q, embs) == CHOOSE m \in ScoresOf(q, embs) : \A x \in ScoresOf(q, embs) : Leq(x, m)

\* sentence i and embedding i belong together, for every i
Aligned(sents, embs) ==
  /\ Len(sents) = Len(embs)
  /\ \A i \in 1..Len(sents) : embs[i] \in {Embedding(sents[i]), ZeroVector}

\* C1: when testSentence scans a non-empty corpus of as many embeddings as
\* sentences with a query that embedded, and the largest cosine similarity of
\* the query to an embedding is at least 0.3, it returns that largest
\* similarity as bestScore and, as bestMatch, a sentence whose embedding
\* attains it.
C1_BestMatchAttainsMaximum ==
  [][\A c \in Calls :
       (/\ ScanStep(c)
        /\ ValidEmbedding(calls[c].raw)
        /\ Len(trainedEmbeddings) > 0
        /\ Len(trainedSentences) = Len(trainedEmbeddings)
        /\ Leq(SIMILARITY_THRESHOLD, MaxOf(calls[c].raw, trainedEmbeddings)))
       => /\ calls'[c].ret.bestScore = MaxOf(calls[c].raw, trainedEmbeddings)
          /\ \E i \in 1..Len(trainedEmbeddings) :
               /\ calls'[c].ret.bestMatch = Str(trainedSentences[i])
               /\ cosineSimilarity(calls[c].raw, trainedEmbeddings[i])
                    = MaxOf(calls[c].raw, trainedEmbeddings)]_vars

\* a match found at the second entry, the first one scoring lower
C1_Witness ==
  \E c \in Calls :
    /\ calls[c].kind = "test" /\ calls[c].pc = "done"
    /\ calls[c].ret = Result(Str("b"), Num(3, 10))
    /\ trainedSentences = <<"a", "b">>
    /\ trainedEmbeddings = <<ZeroVector, Embedding("b")>>

\* C2: when the largest similarity over the scanned corpus is below 0.3,
\* testSentence returns no bestMatch and that similarity as bestScore; a
\* largest similarity of exactly 0.3 is returned with a bestMatch.
C2_BelowThresholdRejected ==
  [][\A c \in Calls :
       (ScanStep(c) /\ ValidEmbedding(calls[c].raw) /\ Len(trainedEmbeddings) > 0)
       => LET m == MaxOf(calls[c].raw, trainedEmbeddings)
          IN  /\ Less(m, SIMILARITY_THRESHOLD) => calls'[c].ret = Result(Null, m)
              /\ m = SIMILARITY_THRESHOLD =>
                   /\ calls'[c].ret.bestMatch # Null
                   /\ calls'[c].ret.bestScore = SIMILARITY_THRESHOLD]_vars

\* the query "a" against the corpus of "b": similarity 0, no match
C2_Witness ==
  \E c \in Calls :
    /\ calls[c].kind = "test" /\ calls[c].pc = "done"
    /\ calls[c].ret = Result(Null, Num(0, 1))
    /\ trainedSentences = <<"b">>
    /\ trainedEmbeddings = <<Embedding("b")>>

\* C3: a testSentence call that finds nothing in memory and no file returns
\* { bestMatch: null, bestScore: null } and leaves the corpus empty and the
\* file absent.
C3_NoDataReturnsNulls ==
  [][\A c \in Calls :
       (/\ CheckStep(c)
        /\ trainedSentences = <<>> /\ trainedEmbeddings = <<>>
        /\ ~file.exists)
       => /\ calls'[c].pc = "done"
          /\ calls'[c].ret = Result(Null, Null)
          /\ trainedSentences' = <<>> /\ trainedEmbeddings' = <<>>
          /\ file' = NoFile]_vars

\* the first call of the process is a testSentence call, and there is no file
C3_Witness ==
  \E c \in Calls :
    /\ calls[c].kind = "test" /\ calls[c].pc = "done"
    /\ calls[c].ret = Result(Null, Null)
    /\ \A d \in Calls \ {c} : calls[d] = Idle
    /\ trainsCompleted = 0
    /\ trainedSentences = <<>> /\ trainedEmbeddings = <<>>
    /\ file = NoFile

\* the first index whose embedding attains the largest similarity to q
FirstAttaining(q, embs) ==
  CHOOSE i \in 1..Len(embs) :
    /\ cosineSimilarity(q, embs[i]) = MaxOf(q, embs)
    /\ \A j \in 1..(i - 1) : cosineSimilarity(q, embs[j]) # MaxOf(q, embs)

\* what testSentence returns right after trainModel(P) gave P the
\* embeddings embs, when the capability produces raw for the query
RetrainedResult(P, embs, raw) ==
  IF ~ValidEmbedding(raw) THEN Result(Null, Null)
  ELSE IF Len(embs) = 0 THEN Result(Null, NegInfinity)
  ELSE LET m == MaxOf(raw, embs)
       IN  IF Less(m, SIMILARITY_THRESHOLD)
             THEN Result(Null, m)
             ELSE Result(Str(P[FirstAttaining(raw, embs)]), m)

\* C4: with one call at a time, a testSentence call that finds the corpus
\* empty and a file holding the list P retrains on exactly P (or fails
\* reading the file); when it scans, the corpus is P with one embedding
\* per sentence of P, the file still holds P, and the result is the one of
\* trainModel(P) followed by testSentence of the same query.
C4_RehydrationMatchesRetraining ==
  [][\A c \in Calls :
       /\ (CheckStep(c) /\ trainedSentences = <<>> /\ trainedEmbeddings = <<>> /\ file.exists)
          => \/ calls'[c].pc = "failed" /\ calls'[c].err = "read"
             \/ calls'[c].rehydrated /\ calls'[c].sentences = file.content
       /\ (ScanStep(c) /\ calls[c].rehydrated)
          => /\ file.exists
             /\ trainedSentences = file.content
             /\ Aligned(trainedSentences, trainedEmbeddings)
             /\ trainedSentences' = trainedSentences
             /\ trainedEmbeddings' = trainedEmbeddings
             /\ calls'[c].ret
                  = RetrainedResult(file.content, trainedEmbeddings, calls[c].raw)]_vars

\* after a restart with the file holding a, b: the query "a" is matched
C4_Witness ==
  \E c \in Calls :
    /\ calls[c].kind = "test" /\ calls[c].pc = "done" /\ calls[c].rehydrated
    /\ calls[c].ret = Result(Str("a"), Num(1, 1))
    /\ trainsCompleted = 1
    /\ file = FileOf(<<"a", "b">>)
    /\ trainedSentences = <<"a", "b">>
    /\ trainedEmbeddings = <<Embedding("a"), Embedding("b")>>

\* the sentences of a sequence
Range(seq) == {seq[i] : i \in 1..Len(seq)}

\* C5: with one call at a time, when trainModel(B) installs its embeddings
\* the corpus is exactly B, in B's order, with one embedding per sentence of
\* B, whatever was trained before; and a testSentence call returns as
\* bestMatch only null or a sentence of the corpus it scanned.
C5_TrainReplacesCorpus ==
  [][\A c \in Calls :
       /\ (FinishStep(c) /\ calls[c].kind = "train")
          => /\ trainedSentences' = calls[c].sentences
             /\ Aligned(calls[c].sentences, trainedEmbeddings')
       /\ ScanStep(c)
          => calls'[c].ret.bestMatch \in {Null} \cup {Str(x) : x \in Range(trainedSentences)}]_vars

\* a second trainModel call has completed, with the list b: "a" is gone
C5_Witness ==
  \E c \in Calls :
    /\ calls[c].kind = "train" /\ calls[c].pc = "done"
    /\ trainsCompleted = 2
    /\ trainedSentences = <<"b">>
    /\ trainedEmbeddings = <<Embedding("b")>>
    /\ file = FileOf(<<"b">>)

\* a trainModel call, direct or rehydrating, has not returned yet
TrainInProgress ==
  \E c \in Calls : calls[c].pc \in {"tm_loading", "tm_ready", "embedding"}

\* C6: once a train call has completed, the number of sentences in memory
\* equals the number of embeddings unless a train call is in progress, and
\* it does so whenever a match is about to scan the corpus.
C6_LengthsAgreeOutsideTraining ==
  /\ (trainsCompleted > 0 /\ ~TrainInProgress)
       => Len(trainedSentences) = Len(trainedEmbeddings)
  /\ \A c \in Calls :
       calls[c].pc = "scanning" => Len(trainedSentences) = Len(trainedEmbeddings)

\* C7: the corpus a testSentence call scans is a complete one, every
\* embedding belonging to the sentence at its index, also while a
\* trainModel call is in progress.
C7_ScanSeesCompleteCorpus ==
  \A c \in Calls :
    calls[c].pc = "scanning" => Aligned(trainedSentences, trainedEmbeddings)

\* C8: a trainModel call installs its whole sentence list; each of its
\* embedding computations yields the sentence's embedding or, when it
\* failed, the zero vector; and a call with a failed computation installs
\* these vectors, one per input sentence, and returns normally with its list
\* written to the file: only the write itself can make it throw.
C8_FailedEmbeddingsBecomeZero ==
  [][\A c \in Calls :
       /\ InstallStep(c) => trainedSentences' = calls[c].sentences
       /\ (calls[c].pc = "embedding" /\ calls'[c].pc = "embedding")
          => \A i \in 1..Len(calls[c].sentences) :
               calls'[c].results[i] \in
                 {Pending, Embedding(calls[c].sentences[i]), ZeroVector}
       /\ (/\ FinishStep(c) /\ calls[c].kind = "train"
           /\ \E i \in 1..Len(calls[c].results) : calls[c].results[i] = ZeroVector)
          => /\ trainedEmbeddings' = calls[c].results
             /\ Aligned(calls[c].sentences, trainedEmbeddings')
             /\ \/ calls'[c].pc = "done" /\ file' = FileOf(calls[c].sentences)
                \/ calls'[c].pc = "failed" /\ calls'[c].err = "write" /\ file' = file]_vars

\* trainModel(["a", "b"]) returned although the embedding of "a" failed
C8_Witness ==
  \E c \in Calls :
    /\ calls[c].kind = "train" /\ calls[c].pc = "done"
    /\ trainedSentences = <<"a", "b">>
    /\ trainedEmbeddings = <<ZeroVector, Embedding("b")>>
    /\ file = FileOf(<<"a", "b">>)

\* C9: every embedding in memory is an array of as many components as the
\* embedder's vectors have.
C9_EmbeddingsHaveEmbedderDim ==
  \A i \in 1..Len(trainedEmbeddings) :
    IsArray(trainedEmbeddings[i]) /\ trainedEmbeddings[i].dim = EmbedderDim

\* a computed embedding next to a substituted zero vector
C9_Witness ==
  /\ trainedSentences = <<"a", "b">>
  /\ trainedEmbeddings = <<Embedding("a"), ZeroVector>>

\* C10: when the capability throws for the query, or produces an empty array
\* or no array, testSentence returns { bestMatch: null, bestScore: null }
\* (it does not throw) and leaves the corpus as it is.
C10_QueryFailureReturnsNulls ==
  [][\A c \in Calls :
       (/\ calls[c].pc = "scanning" /\ calls'[c].pc # "scanning"
        /\ ~ValidEmbedding(calls[c].raw))
       => /\ calls'[c].pc = "done"
          /\ calls'[c].ret = Result(Null, Null)
          /\ trainedSentences' = trainedSentences
          /\ trainedEmbeddings' = trainedEmbeddings]_vars

\* a query that failed to embed against a trained corpus
C10_Witness ==
  \E c \in Calls :
    /\ calls[c].kind = "test" /\ calls[c].pc = "done" /\ ~calls[c].rehydrated
    /\ calls[c].ret = Result(Null, Null)
    /\ trainedSentences = <<"a", "b">>
    /\ trainedEmbeddings = <<Embedding("a"), Embedding("b")>>

\* C11: when testSentence returns a bestMatch from a scan in which several
\* embeddings attain the largest similarity, the bestMatch is the sentence at
\* the smallest index among them.
C11_FirstMaximumWins ==
  [][\A c \in Calls :
       (/\ ScanStep(c)
        /\ ValidEmbedding(calls[c].raw)
        /\ Len(trainedEmbeddings) > 0
        /\ Leq(SIMILARITY_THRESHOLD, MaxOf(calls[c].raw, trainedEmbeddings)))
       => LET attaining == {i \in 1..Len(trainedEmbeddings) :
                              cosineSimilarity(calls[c].raw, trainedEmbeddings[i])
                                = MaxOf(calls[c].raw, trainedEmbeddings)}
          IN  \E i \in attaining :
                /\ \A j \in attaining : i <= j
                /\ calls'[c].ret.bestMatch = SentenceAt(i)]_vars

\* the query "q" is as similar to "a" as to "b": "a", the first one, is returned
C11_Witness ==
  \E c \in Calls :
    /\ calls[c].kind = "test" /\ calls[c].pc = "done"
    /\ calls[c].ret = Result(Str("a"), Num(3, 10))
    /\ trainedSentences = <<"a", "b">>
    /\ trainedEmbeddings = <<Embedding("a"), Embedding("b")>>

C13_FileOverwrittenWholesale ==
  [][\A c \in Calls :
       (FinishStep(c) /\ calls'[c].pc # "failed")
       => /\ file'.exists
          /\ file'.content = calls[c].sentences]_vars

\* a second trainModel call has written its one-sentence list
C13_Witness ==
  \E c \in Calls :
    /\ calls[c].kind = "train" /\ calls[c].pc = "done"
    /\ trainsCompleted = 2
    /\ trainedEmbeddings = <<ZeroVector>>
    /\ file = FileOf(<<"b">>)

\* a call is waiting for a pipeline() it started
Loading(c) == calls[c].pc \in {"tm_loading", "t_loading"}

\* C14: the embedding model is initialised at most once, whatever calls
\* overlap: no two calls run pipeline() at the same time, and the handle is
\* never assigned a second time.
C14_InitialisedOnce ==
  /\ embedder <= 1
  /\ \A c, d \in Calls : (Loading(c) /\ Loading(d)) => c = d

\* C15: a trainModel call modifies nothing up to the await of loadModel, and
\* when its pipeline() does not deliver a handle the call throws the load
\* failure at once (no second attempt) with sentences, embeddings, file and
\* handle as they were.
C15_LoadFailurePropagates ==
  [][\A c \in Calls :
       /\ (calls[c].pc \in Inactive /\ calls'[c].pc = "tm_loading")
          => UNCHANGED <<embedder, trainedSentences, trainedEmbeddings, file>>
       /\ (calls[c].pc = "tm_loading" /\ calls'[c].pc # "tm_loading" /\ embedder' = embedder)
          => /\ calls'[c].pc = "failed"
             /\ calls'[c].err = "load"
             /\ UNCHANGED <<trainedSentences, trainedEmbeddings, file>>]_vars

\* a trainModel call failed to load while the corpus of another call is in
\* place
C15_Witness ==
  \E c \in Calls :
    /\ calls[c].kind = "train" /\ calls[c].pc = "failed" /\ calls[c].err = "load"
    /\ embedder = 1
    /\ trainedSentences = <<"b">>
    /\ trainedEmbeddings = <<Embedding("b")>>
    /\ file = FileOf(<<"b">>)

\* C16: every testSentence call that has settled, also one whose load,
\* file read or rehydrating trainModel failed, ends the request of the test
\* API handler with a response; no exception escapes the handler.
C16_MatchFailuresAreCaught ==
  \A c \in Calls :
    (calls[c].kind = "test" /\ calls[c].pc \in {"done", "failed"})
    => testHandler(calls[c]).t = "response"

\* every component of the array is 0 (the empty array has none)
IsZeroVector(v) == \A i \in 1..Len(v.head) : v.head[i] = 0

\* C17: cosineSimilarity(a, b) is exactly 0 whenever a or b is a zero
\* vector, of whatever lengths a and b are; it is then neither NaN nor the
\* outcome of a division.
C17_ZeroVectorGivesZero ==
  /\ (cos.ab # NotCalled /\ (IsZeroVector(cos.a) \/ IsZeroVector(cos.b)))
       => cos.ab = Num(0, 1)
  /\ (cos.ba # NotCalled /\ (IsZeroVector(cos.a) \/ IsZeroVector(cos.b)))
       => cos.ba = Num(0, 1)

\* a zero vector longer than the other array: the dot product is NaN, the
\* result 0
C17_Witness ==
  /\ cos.a = Vec(2, <<0, 0>>)
  /\ cos.b = Vec(1, <<3>>)
  /\ cos.ab = Num(0, 1)

\* JavaScript's ==: NaN equals nothing
JsEq(x, y) == x.t = "num" /\ y.t = "num" /\ x = y

\* C18 as stated: cosineSimilarity(a, b) == cosineSimilarity(b, a) for all
\* numeric arrays a and b, of equal or different lengths.
C18_Symmetric ==
  (cos.ab # NotCalled /\ cos.ba # NotCalled) => JsEq(cos.ab, cos.ba)

\* C18, amended: cosineSimilarity(a, b) == cosineSimilarity(b, a) for all
\* numeric arrays a and b of the same length, and also when one of them is a
\* zero vector.
C18_SymmetricOnEqualLengths ==
  (/\ cos.ab # NotCalled /\ cos.ba # NotCalled
   /\ \/ cos.a.dim = cos.b.dim
      \/ IsZeroVector(cos.a) \/ IsZeroVector(cos.b))
  => JsEq(cos.ab, cos.ba)

\* two different arrays of the same length, evaluated both ways
C18_Witness ==
  /\ cos.a = Vec(2, <<3, 4>>)
  /\ cos.b = Vec(2, <<4, 3>>)
  /\ cos.ab = Num(24, 25)
  /\ cos.ba = Num(24, 25)

\* C19: a bestScore that testSentence returns is null or a finite number
\* between -1 and 1, also after a scan of an empty corpus.
C19_ScoreIsFiniteCosine ==
  \A c \in Calls :
    (calls[c].kind = "test" /\ calls[c].pc = "done" /\ calls[c].ret.bestScore # Null)
    => /\ calls[c].ret.bestScore.t = "num"
       /\ Leq(Num(-1, 1), calls[c].ret.bestScore)
       /\ Leq(calls[c].ret.bestScore, Num(1, 1))

\* the handler's condition for calling trainModel: sentences is a non-empty
\* array
HasSentences(body) ==
  /\ body.t = "object"
  /\ body.sentences.t = "array"
  /\ Len(body.sentences.items) > 0

\* C20: every request to /api/train ends with one response: 405 when the
\* method is not POST, 400 when it is POST and sentences is not a non-empty
\* array, and then trainModel was not called; 200 when trainModel returned and
\* 500 with a non-empty message when it threw; and trainModel is called only
\* with a non-empty list.
C20_EveryTrainRequestAnswered ==
  /\ req.pc \in {"answered", "thrown"}
       => /\ req.res.t = "response"
          /\ req.method # "POST" => req.res.status = 405
          /\ (req.method = "POST" /\ ~HasSentences(req.body)) => req.res.status = 400
          /\ (req.method = "POST" /\ HasSentences(req.body))
               => /\ req.res.status \in {200, 500}
                  /\ req.res.status = 200 => trainsCompleted = 1
                  /\ req.res.status = 500 => trainsCompleted = 0 /\ req.res.body # ""
          /\ req.res.status \in {400, 405}
               => embedder = 0 /\ trainedSentences = <<>> /\ req.call = 0
  /\ \A c \in Calls : calls[c].kind = "train" => Len(calls[c].sentences) > 0 \/ calls[c].pc \in Inactive

\* C21: with one call at a time, a testSentence call that finds sentences and
\* embeddings in memory goes on to embed the query without rehydrating, and
\* no step of a testSentence call that did not rehydrate changes the
\* sentences, the embeddings or the file, whatever the call returns.
C21_MatcherIsReadOnly ==
  [][\A c \in Calls :
       /\ (CheckStep(c) /\ Len(trainedSentences) > 0 /\ Len(trainedEmbeddings) > 0)
          => calls'[c].pc = "q_embedding" /\ ~calls'[c].rehydrated
       /\ (calls'[c] # calls[c] /\ calls'[c].kind = "test" /\ ~calls'[c].rehydrated)
          => UNCHANGED <<trainedSentences, trainedEmbeddings, file>>]_vars

\* a match against the trained corpus of "b" has returned; the corpus and
\* the file are the ones the train call left
C21_Witness ==
  \E c \in Calls :
    /\ calls[c].kind = "test" /\ calls[c].pc = "done" /\ ~calls[c].rehydrated
    /\ calls[c].ret = Result(Str("b"), Num(3, 10))
    /\ trainedSentences = <<"b">>
    /\ trainedEmbeddings = <<Embedding("b")>>
    /\ file = FileOf(<<"b">>)

\* C22: a testSentence call reads the file (and starts a rehydrating
\* trainModel) only when there is nothing in memory: neither sentences nor
\* embeddings; not while a trainModel call that has installed its sentence
\* list is in progress.
C22_RehydratesOnlyWhenEmpty ==
  [][\A c \in Calls :
       (CheckStep(c) /\ (calls'[c].rehydrated \/ calls'[c].err = "read"))
       => Len(trainedSentences) = 0 /\ Len(trainedEmbeddings) = 0]_vars

\* C23: with one call at a time, once there are embeddings in memory, no
\* step of a call that does not throw leaves the memory without embeddings,
\* and no call that returns leaves it without sentences.
C23_PopulatedStaysPopulated ==
  [][\A c \in Calls :
       (/\ Len(trainedEmbeddings) > 0
        /\ calls[c].pc \notin Inactive
        /\ calls'[c] # calls[c]
        /\ calls'[c].pc # "failed")
       => /\ Len(trainedEmbeddings') > 0
          /\ calls'[c].pc = "done" => Len(trainedSentences') > 0]_vars

\* C24: with one call at a time, a trainModel call with the empty list that
\* does not throw leaves sentences and embeddings that were in memory in
\* place and does not replace a non-empty list in the file.
C24_EmptyTrainIsNoOp ==
  [][\A c \in Calls :
       (/\ calls[c].pc \in {"tm_ready", "embedding"}
        /\ calls[c].sentences = <<>>
        /\ calls'[c] # calls[c]
        /\ calls'[c].pc # "failed")
       => /\ Len(trainedSentences) > 0 => trainedSentences' = trainedSentences
          /\ Len(trainedEmbeddings) > 0 => trainedEmbeddings' = trainedEmbeddings
          /\ (file.exists /\ Len(file.content) > 0) => file' = file]_vars

\* C25: while a trainModel call awaits Promise.all, its embedding
\* computations settle one at a time in any order; each result goes to the
\* place of its own sentence and stays there, and the embeddings the call
\* installs are, index by index, the results of its sentences.
C25_ResultsMatchedByIndex ==
  [][\A c \in Calls :
       /\ (calls[c].pc = "embedding" /\ calls'[c].pc = "embedding")
          => \A i \in 1..Len(calls[c].sentences) :
               /\ calls[c].results[i] # Pending => calls'[c].results[i] = calls[c].results[i]
               /\ calls'[c].results[i] \in
                    {Pending, Embedding(calls[c].sentences[i]), ZeroVector}
       /\ FinishStep(c)
          => /\ Len(trainedEmbeddings') = Len(calls[c].sentences)
             /\ \A i \in 1..Len(calls[c].sentences) :
                  /\ trainedEmbeddings'[i] = calls[c].results[i]
                  /\ trainedEmbeddings'[i] \in {Embedding(calls[c].sentences[i]), ZeroVector}]_vars

\* the computation of the second sentence has settled before the first
C25_Witness ==
  \E c \in Calls :
    /\ calls[c].kind = "train" /\ calls[c].pc = "embedding"
    /\ calls[c].sentences = <<"a", "b">>
    /\ calls[c].results = <<Pending, Embedding("b")>>

\* C26: when every continuation that is ready runs, a trainModel call that
\* has its handle leaves trainModel (it returns, or throws the error of the
\* write); it installs its embeddings and writes the file in the one step
\* after all its computations have settled and not before; and every
\* computation that is pending can settle whatever the others have done.
C26_TrainCompletes ==
  /\ \A c \in Calls :
       (calls[c].pc \in {"tm_ready", "embedding"})
         ~> (calls[c].pc \notin {"tm_ready", "embedding"})
  /\ [][\A c \in Calls :
          /\ FinishStep(c) => AllSettled(calls[c])
          /\ (calls[c].pc = "embedding" /\ calls'[c].pc = "embedding")
             => UNCHANGED <<trainedEmbeddings, file>>]_vars
  /\ [](\A c \in Calls : \A i \in 1..Len(calls[c].results) :
          (calls[c].pc = "embedding" /\ calls[c].results[i] = Pending)
          => ENABLED EmbedDone(c, i))

\* a trainModel call has returned although one of its computations failed
C26_Witness ==
  \E c \in Calls :
    /\ calls[c].kind = "train" /\ calls[c].pc = "done"
    /\ trainedSentences = <<"a", "b">>
    /\ trainedEmbeddings = <<Embedding("a"), ZeroVector>>
    /\ file = FileOf(<<"a", "b">>)

\* C27: with one call at a time, in every scan with a query that embedded,
\* each entry stored as the zero vector scores exactly 0 and its sentence is
\* not the bestMatch returned.
C27_ZeroVectorEntryUnmatchable ==
  [][\A c \in Calls :
       (ScanStep(c) /\ ValidEmbedding(calls[c].raw))
       => \A i \in 1..Len(trainedEmbeddings) :
            trainedEmbeddings[i] = ZeroVector
            => /\ cosineSimilarity(calls[c].raw, trainedEmbeddings[i]) = Num(0, 1)
               /\ calls'[c].ret.bestMatch # SentenceAt(i)]_vars

\* the only sentence of the corpus failed to embed: no match, score 0
C27_Witness ==
  \E c \in Calls :
    /\ calls[c].kind = "test" /\ calls[c].pc = "done"
    /\ calls[c].ret = Result(Null, Num(0, 1))
    /\ trainedSentences = <<"b">>
    /\ trainedEmbeddings = <<ZeroVector>>

\* C28: the handle, once set, is never set back to null and never replaced
\* by the handle of another initialisation.
C28_HandleIsMonotonic ==
  [][embedder # 0 => embedder' = embedder]_vars

\* C29: when no trainModel call (direct or started by a rehydrating
\* testSentence) is in progress, the sentences and the embeddings in memory
\* are those of one call: as many embeddings as sentences, and embedding i is
\* what was computed for sentence i.
C29_CorpusFromOneCall ==
  ~TrainInProgress => Aligned(trainedSentences, trainedEmbeddings)

\* C30: when a trainModel call returns normally and leaves no train call in
\* progress, the file holds the sentence list that is in memory.
C30_FileEqualsMemory ==
  [][\A c \in Calls :
       (FinishStep(c) /\ calls'[c].pc # "failed" /\ ~TrainInProgress')
         => file' = FileOf(trainedSentences')]_vars

\* C31: whenever testSentence returns a bestMatch other than null, bestScore
\* is a number of at least 0.3 and bestMatch is a string that is one of the
\* sentences in memory when the corpus is scanned; under every interleaving
\* with train calls.
C31_MatchIsATrainedSentence ==
  [][\A c \in Calls :
       (ScanStep(c) /\ calls'[c].ret.bestMatch # Null)
         => /\ calls'[c].ret.bestScore.t = "num"
            /\ Leq(SIMILARITY_THRESHOLD, calls'[c].ret.bestScore)
            /\ calls'[c].ret.bestMatch \in {Str(x) : x \in Range(trainedSentences)}]_vars

\* the step in which trainModel call c throws what writeFileSync threw
WriteFails(c) == FinishStep(c) /\ calls'[c].err = "write"

MatchSent == Len(home'.matches) > Len(home.matches)
TrainSent == home.train.pc = "idle" /\ home'.train.pc = "fetching"
TrainSettled == home.train.pc # "idle" /\ home'.train.pc = "idle"
TrainOutstanding == home.train.pc # "idle"

\* C33: a request to /api/test is sent only when the trimmed test input is
\* not empty and isModelTrained is true, and it carries the trimmed input,
\* which has no space at either end; a click on Match with a blank input or
\* an untrained model sends nothing and sets testResult to the explanation.
C33_BlankQueriesStayInThePage ==
  [][/\ MatchSent
          => /\ trim(home.testInput) # <<>>
             /\ home.isModelTrained
             /\ home'.matches = Append(home.matches, [testText |-> trim(home.testInput), pc |-> "fetching"])
             /\ Head(trim(home.testInput)) # " "
             /\ trim(home.testInput)[Len(trim(home.testInput))] # " "
     /\ (handleMatch /\ (trim(home.testInput) = <<>> \/ ~home.isModelTrained))
          => /\ home'.matches = home.matches
             /\ home'.testResult = IF trim(home.testInput) = <<>> THEN PleaseEnterText ELSE NotTrainedYet
     /\ \A k \in 1..Len(home.matches) :
          home.matches[k].testText # <<>> /\ \E j \in 1..Len(home.matches[k].testText) : home.matches[k].testText[j] # " "]_vars

\* Match was clicked on an input of spaces only: the explanation is shown and
\* no request is in flight
C33_Witness ==
  /\ home.isModelTrained
  /\ home.testInput = <<" ", " ">>
  /\ home.testResult = PleaseEnterText
  /\ home.matches = <<>>

\* C34: isModelTrained becomes true only in the step in which a train
\* request settles with an ok response, and is false after a train request
\* failed; isTraining is true exactly while a train request is outstanding;
\* and a train request is sent only with at least one collected sentence.
C34_TrainFlags ==
  /\ [](home.isTraining <=> TrainOutstanding)
  /\ [][/\ (~home.isModelTrained /\ home'.isModelTrained)
             => home.train.pc = "fetching" /\ home'.train = [NoTrainFetch EXCEPT !.res = "ok"]
        /\ (TrainSettled /\ home'.train.res # "ok") => ~home'.isModelTrained
        /\ TrainSettled => ~home'.isTraining
        /\ TrainSent => totalGeneratedCount >= 1 /\ home'.train.sentences = totalGeneratedCount
        /\ totalGeneratedCount = 0 => ~TrainSent]_vars

\* a train request was answered with a response that was not ok: the model
\* is not trained and isTraining is false again
C34_Witness ==
  /\ home.train = [NoTrainFetch EXCEPT !.res = "notok"]
  /\ ~home.isModelTrained
  /\ ~home.isTraining
  /\ home.isError
  /\ home.statusMsg = ServerMessage

====
